---- MODULE Spec2Model ----
(***************************************************************************)
(* arc-init "shell" command: the completion file writer and the RC block   *)
(* manager (internal/cmd, shell command).                                  *)
(*                                                                         *)
(* File contents are sequences of one-character strings, so that the       *)
(* substring searches (strings.Index, strings.Contains), the slicing and   *)
(* strings.TrimSpace of the source are computed character by character.    *)
(* Indices follow Go: 0-based, -1 for "not found".                         *)
(*                                                                         *)
(* The file system may refuse any stat, read, open or write.  A refused    *)
(* stat, read or open leaves the file as it was; a path whose stat is      *)
(* refused (a directory of the path cannot be searched) cannot be opened   *)
(* in the same call either.  A write that fails after its open leaves a    *)
(* prefix of the data behind, after the O_TRUNC or O_CREATE of the open    *)
(* has taken effect; such writes are counted in faults.                    *)
(*                                                                         *)
(* SpecRC and SpecClean call upsertRCBlock and removeRCBlock directly,     *)
(* SpecComp calls writeShellCompletion directly, Spec runs the command     *)
(* once in a home directory.                                               *)
(***************************************************************************)
EXTENDS Integers, Sequences, FiniteSets, TLC

VARIABLES
    rc,       \* RC files: path -> [exists, data]
    bak,      \* sibling backups <path>.arc.bak: path -> [exists, data]
    comp,     \* completion target file of each shell: shell -> [exists, data]
    target,   \* the path argument of the direct RC-manager calls
    hist,     \* <<>>, or <<the last direct RC-manager call>>
    clog,     \* <<>>, or <<the last direct writeShellCompletion call>>
    run,      \* the shell command's invocation: idle, or what RunE did
    faults    \* the number of writes that failed after their open

vars == <<rc, bak, comp, target, hist, clog, run, faults>>

----------------------------------------------------------------------------
(* Text constants of the source.                                           *)

NL == <<"\n">>

\* const rcStart = "# >>> arc init >>>"
rcStart ==
    <<"#", " ", ">", ">", ">", " ", "a", "r", "c", " ", "i", "n", "i", "t",
      " ", ">", ">", ">">>

\* const rcEnd = "# <<< arc init <<<"
rcEnd ==
    <<"#", " ", "<", "<", "<", " ", "a", "r", "c", " ", "i", "n", "i", "t",
      " ", "<", "<", "<">>

\* the raw-string payload of the bash block (ensureShellRC)
bashPayload ==
    <<"#", " ", "A", "r", "c", " ", "b", "a", "s", "h", " ", "c", "o", "m",
      "p", "l", "e", "t", "i", "o", "n", "s", "\n", "i", "f", " ", "[",
      " ", "-", "f", " ", "\"", "$", "H", "O", "M", "E", "/", ".", "c",
      "o", "n", "f", "i", "g", "/", "b", "a", "s", "h", "/", "c", "o", "m",
      "p", "l", "e", "t", "i", "o", "n", "s", "/", "a", "r", "c", ".", "b",
      "a", "s", "h", "\"", " ", "]", ";", " ", "t", "h", "e", "n", "\n",
      " ", " ", ".", " ", "\"", "$", "H", "O", "M", "E", "/", ".", "c",
      "o", "n", "f", "i", "g", "/", "b", "a", "s", "h", "/", "c", "o", "m",
      "p", "l", "e", "t", "i", "o", "n", "s", "/", "a", "r", "c", ".", "b",
      "a", "s", "h", "\"", "\n", "f", "i">>

\* the raw-string payload of the zsh block (ensureShellRC)
zshPayload ==
    <<"#", " ", "A", "r", "c", " ", "z", "s", "h", " ", "c", "o", "m", "p",
      "l", "e", "t", "i", "o", "n", "s", "\n", "f", "p", "a", "t", "h",
      "+", "=", "(", "~", "/", ".", "z", "s", "h", "/", "c", "o", "m", "p",
      "l", "e", "t", "i", "o", "n", "s", ")", "\n", "a", "u", "t", "o",
      "l", "o", "a", "d", " ", "-", "U", "z", " ", "c", "o", "m", "p", "i",
      "n", "i", "t", "\n", "c", "o", "m", "p", "i", "n", "i", "t">>

\* block = rcStart + "\n" + payload + "\n" + rcEnd + "\n"
bashBlock == rcStart \o NL \o bashPayload \o NL \o rcEnd \o NL

zshBlock == rcStart \o NL \o zshPayload \o NL \o rcEnd \o NL

Blocks == {bashBlock, zshBlock}

Shells == {"bash", "zsh", "fish", "powershell"}

RCPaths == {".bashrc", ".bash_profile", ".zshrc"}

----------------------------------------------------------------------------
(* Go's strings package, as far as the source uses it.                     *)

\* strings.Index(s, sub): the 0-based offset of the first occurrence, or -1
Index(s, sub) ==
    LET n == Len(sub)
        at == {i \in 0..(Len(s) - n) : \A j \in 1..n : s[i + j] = sub[j]}
    IN  IF at = {} THEN -1
        ELSE CHOOSE i \in at : \A k \in at : i <= k

\* strings.Contains(s, sub)
Contains(s, sub) == Index(s, sub) >= 0

\* the characters strings.TrimSpace strips (unicode.IsSpace): tab, newline,
\* vertical tab, form feed, carriage return, space, U+0085, U+00A0, and the
\* other White_Space code points, which are written by their names
WhiteSpace ==
    {"\t", "\n", "", "\f", "\r", " ", "", " ",
     "U+1680", "U+2000", "U+2001", "U+2002", "U+2003", "U+2004", "U+2005",
     "U+2006", "U+2007", "U+2008", "U+2009", "U+200A", "U+2028", "U+2029",
     "U+202F", "U+205F", "U+3000"}

\* strings.TrimSpace(s)
TrimSpace(s) ==
    LET ink == {i \in 1..Len(s) : s[i] \notin WhiteSpace}
    IN  IF ink = {} THEN <<>>
        ELSE LET lo == CHOOSE i \in ink : \A k \in ink : i <= k
                 hi == CHOOSE i \in ink : \A k \in ink : k <= i
             IN  SubSeq(s, lo, hi)

\* s[:n]
Prefix(s, n) == SubSeq(s, 1, n)

\* s[n:]
Suffix(s, n) == SubSeq(s, n + 1, Len(s))

\* the number of (possibly overlapping) occurrences of sub in s
Count(s, sub) ==
    Cardinality({i \in 0..(Len(s) - Len(sub)) :
                    \A j \in 1..Len(sub) : s[i + j] = sub[j]})

----------------------------------------------------------------------------
(* Files.                                                                  *)

NoFile == [exists |-> FALSE, data |-> <<>>]

File(d) == [exists |-> TRUE, data |-> d]

\* how much of data a write that fails can have written: nothing,
\* everything through the first start marker, everything but the last
\* character
Cuts(data) ==
    LET at == Index(data, rcStart) IN
      {n \in {0, Len(data) - 1}
                \cup (IF at >= 0 THEN {at + Len(rcStart)} ELSE {}) :
         0 <= n /\ n < Len(data)}

\* what a write of data that fails leaves in a file opened empty or at its end
ShortWrites(data) == {Prefix(data, n) : n \in Cuts(data)}

----------------------------------------------------------------------------
(* RC block manager: upsertRCBlock and removeRCBlock.                      *)
(* An operation maps the RC files and backups f = [rc, bak] to the set of  *)
(* its possible outcomes [rc, bak, err, res, bakErr, short]: what it left  *)
(* in the files, whether it returned an error, the branch it took, whether *)
(* the backup write failed, and how many of its writes failed part-way.    *)

Outcome(f, e, r, be, n) ==
    [rc |-> f.rc, bak |-> f.bak, err |-> e, res |-> r, bakErr |-> be,
     short |-> n]

\* strings.Contains(cur, rcStart) && strings.Contains(cur, rcEnd)
HasBlock(cur) == Contains(cur, rcStart) /\ Contains(cur, rcEnd)

\* mutant: the backup taken whatever force is
NeedsBackup_Always(force) == TRUE

\* if !force { _ = os.WriteFile(path+".arc.bak", b, 0o644) }
NeedsBackup(force) == ~force

\* O_APPEND and f.WriteString("\n" + block)
Appended(cur, block) == cur \o NL \o block

\* outcomes by res: "staterr" (os.Stat refused, and then os.OpenFile),
\* "readerr", "present", "openerr", "writeerr" (WriteString failed, part of
\* the data appended; a missing file has been created), "appended".  The
\* backup write is os.WriteFile: refused at its open, or failed after the
\* truncation with part of the content written, or complete.
upsertRCBlock(f, path, block, force) ==
    LET file == f.rc[path]
        cur == IF file.exists THEN file.data ELSE <<>>
        append(g, be, n) ==
            {Outcome(g, TRUE, "openerr", be, n)}
            \cup { Outcome([g EXCEPT !.rc[path] = File(cur \o w)],
                           TRUE, "writeerr", be, n + 1)
                     : w \in ShortWrites(NL \o block) }
            \cup { Outcome([g EXCEPT !.rc[path] = File(Appended(cur, block))],
                           FALSE, "appended", be, n) }
        backup ==
            append([f EXCEPT !.bak[path] = File(cur)], FALSE, 0)
            \cup append(f, TRUE, 0)
            \cup UNION { append([f EXCEPT !.bak[path] = File(w)], TRUE, 1)
                           : w \in ShortWrites(cur) }
    IN  IF file.exists
        THEN {Outcome(f, TRUE, "staterr", FALSE, 0),
              Outcome(f, TRUE, "readerr", FALSE, 0)}
             \cup
             (IF HasBlock(cur)
              THEN {Outcome(f, FALSE, "present", FALSE, 0)}
              ELSE IF NeedsBackup(force) THEN backup ELSE append(f, FALSE, 0))
        ELSE append(f, FALSE, 0)

\* mutant: the order of the two markers not looked at
NothingToRemove_NoOrder(start, end) == start = -1 \/ end = -1

\* start == -1 || end == -1 || end < start
NothingToRemove(start, end) == start = -1 \/ end = -1 \/ end < start

\* strings.TrimSpace(s[:start]+s[end:]) + "\n", end already past the marker
Excised(s, start, end) ==
    TrimSpace(Prefix(s, start) \o Suffix(s, end + Len(rcEnd))) \o NL

\* outcomes by res: "readerr", "nothing", "removed", "openerr" (os.WriteFile
\* could not open), "writeerr" (os.WriteFile truncated the file and failed,
\* part of the data written)
removeRCBlock(f, path) ==
    LET file == f.rc[path]
        s == file.data
        start == Index(s, rcStart)
        end == Index(s, rcEnd)
    IN  IF ~file.exists
        THEN {Outcome(f, TRUE, "readerr", FALSE, 0)}
        ELSE {Outcome(f, TRUE, "readerr", FALSE, 0)}
             \cup
             (IF NothingToRemove(start, end)
              THEN {Outcome(f, FALSE, "nothing", FALSE, 0)}
              ELSE { Outcome([f EXCEPT !.rc[path] = File(Excised(s, start, end))],
                             FALSE, "removed", FALSE, 0),
                     Outcome(f, TRUE, "openerr", FALSE, 0) }
                   \cup { Outcome([f EXCEPT !.rc[path] = File(w)],
                                  TRUE, "writeerr", FALSE, 1)
                            : w \in ShortWrites(Excised(s, start, end)) })

----------------------------------------------------------------------------
(* Direct calls of the RC block manager on the path `target`.              *)

MaxPieces == 2

\* how many writes may fail part-way
MaxFaults == 1

\* what an RC file is made of before the first call: user text, white
\* space, and stray or paired marker lines
Pieces == {<<"x">>, NL, rcStart, rcEnd}

RECURSIVE Texts(_)
Texts(n) ==
    IF n = 0 THEN {<<>>}
    ELSE LET T == Texts(n - 1) IN T \cup {t \o p : t \in T, p \in Pieces}

InitFiles == {NoFile} \cup {File(t) : t \in Texts(MaxPieces)}

CleanFiles == {x \in InitFiles : ~Contains(x.data, rcStart) /\ ~Contains(x.data, rcEnd)}

Idle == [pc |-> "idle"]

\* the history after a call: its arguments, what it found, what it returned
Called(op, block, force, o) ==
    << [op |-> op, block |-> block, force |-> force,
        pre |-> rc[target], preBak |-> bak[target],
        err |-> o.err, res |-> o.res, bakErr |-> o.bakErr] >>

\* the writes of a call that fail part-way count against MaxFaults
Counted(o) ==
    /\ faults + o.short <= MaxFaults
    /\ faults' = faults + o.short

CallUpsertRCBlock ==
    \E block \in Blocks, force \in BOOLEAN :
      \E o \in upsertRCBlock([rc |-> rc, bak |-> bak], target, block, force) :
        /\ Counted(o)
        /\ rc' = o.rc
        /\ bak' = o.bak
        /\ hist' = Called("upsert", block, force, o)
        /\ UNCHANGED <<comp, target, clog, run>>

CallRemoveRCBlock ==
    \E o \in removeRCBlock([rc |-> rc, bak |-> bak], target) :
        /\ Counted(o)
        /\ rc' = o.rc
        /\ bak' = o.bak
        /\ hist' = Called("remove", <<>>, FALSE, o)
        /\ UNCHANGED <<comp, target, clog, run>>

\* the direct calls are generic in the path; one path is exercised
DirectPaths == {".zshrc"}

InitRCOn(files) ==
    /\ target \in DirectPaths
    /\ \E x \in files : rc = [p \in RCPaths |-> IF p = target THEN x ELSE NoFile]
    /\ bak = [p \in RCPaths |-> NoFile]
    /\ comp = [s \in Shells |-> NoFile]
    /\ hist = <<>>
    /\ clog = <<>>
    /\ run = Idle
    /\ faults = 0

InitRC == InitRCOn(InitFiles)

InitClean == InitRCOn(CleanFiles)

NextRC == CallUpsertRCBlock \/ CallRemoveRCBlock

SpecRC == InitRC /\ [][NextRC]_vars

SpecClean == InitClean /\ [][NextRC]_vars

----------------------------------------------------------------------------
(* Completion file writer.  The four writers (writeBashCompletion,         *)
(* writeZshCompletion, writeFishCompletion, writePSCompletion) differ only *)
(* in the target path and the generator they call; cf maps each shell to   *)
(* its target file.  The generated script is opaque.                       *)

\* filepath.Join(dir, "arc.bash"), "_arc", "arc.fish", "arc.ps1"
CompletionPath(shell) ==
    CASE shell = "bash" -> "<config>/bash/completions/arc.bash"
      [] shell = "zsh" -> "~/.zsh/completions/_arc"
      [] shell = "fish" -> "<config>/fish/completions/arc.fish"
      [] shell = "powershell" -> "<config>/powershell/arc.ps1"

\* what root.Gen<Shell>Completion streams into the file
Script(shell) == <<"completion script", shell>>

\* a completion file left by an earlier installation
OldScript == <<"old script">>

\* mutant: the existing file never looked at
ExistsSkip_Never(force, exists) == FALSE

\* if !force { if _, err := os.Stat(path); err == nil { return "", nil } }
ExistsSkip(force, exists) == ~force /\ exists

\* outcomes [comp, path, err, res, short].  os.MkdirAll succeeds on a
\* directory that is there, which it is when the target file exists.
\* Without force the target is stat'ed: the skip is taken only when os.Stat
\* succeeds, and a target whose stat is refused cannot be created either.
\* os.Create truncates; a generator that fails leaves part of the script.
writeCompletion(cf, shell, force) ==
    LET file == cf[shell]
        Out(g, p, e, r, n) ==
            [comp |-> g, path |-> p, err |-> e, res |-> r, short |-> n]
    IN  (IF file.exists THEN {} ELSE {Out(cf, "", TRUE, "mkdirerr", 0)})
        \cup
        (IF ExistsSkip(force, file.exists)
         THEN {Out(cf, "", FALSE, "skipped", 0), Out(cf, "", TRUE, "staterr", 0)}
         ELSE {Out(cf, "", TRUE, "createerr", 0)}
              \cup { Out([cf EXCEPT ![shell] = File(w)], "", TRUE, "generr", 1)
                       : w \in ShortWrites(Script(shell)) }
              \cup { Out([cf EXCEPT ![shell] = File(Script(shell))],
                         CompletionPath(shell), FALSE, "written", 0) })

\* shellStatus{shell: shell}
ShellStatus(shell) ==
    [shell |-> shell, written |-> FALSE, skipped |-> FALSE,
     rcWritten |-> FALSE, rcSkipped |-> FALSE, rcRemoved |-> FALSE,
     reason |-> ""]

\* outcomes [comp, status, err, res, short]
writeShellCompletion(cf, status, shell, force) ==
    IF shell \notin Shells
    THEN {[comp |-> cf, status |-> status, err |-> TRUE, res |-> "unknown",
           short |-> 0]}
    ELSE { [comp |-> o.comp,
            status |->
              IF o.err THEN status
              ELSE IF o.path = ""
              THEN [status EXCEPT
                      !.skipped = TRUE,
                      !.reason = "completion file already exists (use --force to overwrite)"]
              ELSE [status EXCEPT !.written = TRUE],
            err |-> o.err,
            res |-> o.res,
            short |-> o.short] : o \in writeCompletion(cf, shell, force) }

----------------------------------------------------------------------------
(* Direct calls of writeShellCompletion.                                   *)

NoWrite == [op |-> "none", shell |-> "", force |-> FALSE, err |-> FALSE,
            written |-> FALSE]

CallWriteShellCompletion ==
    \E shell \in Shells, force \in BOOLEAN :
      \E o \in writeShellCompletion(comp, ShellStatus(shell), shell, force) :
        /\ Counted(o)
        /\ comp' = o.comp
        /\ clog' = << [op |-> "write", shell |-> shell, force |-> force,
                       pre |-> comp, err |-> o.err, res |-> o.res,
                       status |-> o.status,
                       prev |-> IF clog = <<>> THEN NoWrite
                                ELSE [op |-> "write",
                                      shell |-> clog[1].shell,
                                      force |-> clog[1].force,
                                      err |-> clog[1].err,
                                      written |-> clog[1].status.written]] >>
        /\ UNCHANGED <<rc, bak, target, hist, run>>

InitComp ==
    /\ comp \in [Shells -> {NoFile, File(OldScript)}]
    /\ rc = [p \in RCPaths |-> NoFile]
    /\ bak = [p \in RCPaths |-> NoFile]
    /\ target \in DirectPaths
    /\ hist = <<>>
    /\ clog = <<>>
    /\ run = Idle
    /\ faults = 0

NextComp == CallWriteShellCompletion

SpecComp == InitComp /\ [][NextComp]_vars

----------------------------------------------------------------------------
(* The shell command: ensureShellRC and newShellCmd's RunE.                *)

RCShells == {"bash", "zsh"}

\* os.Stat(~/.bashrc) is ErrNotExist: ~/.bash_profile
bashRCPath(rcs) ==
    IF ~rcs[".bashrc"].exists THEN ".bash_profile" ELSE ".bashrc"

zshRCPath == ".zshrc"

RCPathOf(shell, rcs) == IF shell = "bash" THEN bashRCPath(rcs) ELSE zshRCPath

BlockOf(shell) == IF shell = "bash" THEN bashBlock ELSE zshBlock

\* outcomes [rc, bak, status, err, short], for shell in RCShells.  A file that
\* cannot be read here cannot be read by upsertRCBlock either.
ensureShellRC(f, status, shell, force) ==
    LET path == RCPathOf(shell, f.rc)
        file == f.rc[path]
        U == upsertRCBlock(f, path, BlockOf(shell), force)
        Of(o) == [rc |-> o.rc, bak |-> o.bak, err |-> o.err, short |-> o.short,
                  status |-> IF o.err THEN status
                             ELSE [status EXCEPT !.rcWritten = TRUE]]
    IN  IF file.exists /\ HasBlock(file.data)
        THEN { [rc |-> f.rc, bak |-> f.bak, err |-> FALSE, short |-> 0,
                status |-> [status EXCEPT
                              !.rcSkipped = TRUE,
                              !.reason = "RC block already present (use --force to update)"]] }
             \cup {Of(o) : o \in {u \in U : u.res \in {"readerr", "staterr"}}}
        ELSE {Of(o) : o \in U}

UpperCase ==
    <<"A", "B", "C", "D", "E", "F", "G", "H", "I", "J", "K", "L", "M",
      "N", "O", "P", "Q", "R", "S", "T", "U", "V", "W", "X", "Y", "Z">>

LowerCase ==
    <<"a", "b", "c", "d", "e", "f", "g", "h", "i", "j", "k", "l", "m",
      "n", "o", "p", "q", "r", "s", "t", "u", "v", "w", "x", "y", "z">>

\* strings.ToLower, on ASCII text
ToLower(s) ==
    [i \in 1..Len(s) |->
        IF \E k \in 1..Len(UpperCase) : UpperCase[k] = s[i]
        THEN LowerCase[CHOOSE k \in 1..Len(UpperCase) : UpperCase[k] = s[i]]
        ELSE s[i]]

\* values of the SHELL environment variable
EnvZsh == <<"/", "b", "i", "n", "/", "z", "s", "h">>

EnvBash == <<"/", "b", "i", "n", "/", "b", "a", "s", "h">>

EnvFish == <<"/", "b", "i", "n", "/", "f", "i", "s", "h">>

EnvPowerShell == <<"P", "o", "w", "e", "r", "S", "h", "e", "l", "l">>

EnvPOWERSHELL == <<"P", "O", "W", "E", "R", "S", "H", "E", "L", "L">>

EnvSh == <<"/", "b", "i", "n", "/", "s", "h">>

ShellEnvs ==
    {<<>>, EnvZsh, EnvBash, EnvFish, EnvPowerShell, EnvPOWERSHELL, EnvSh}

detectShell(sh) ==
    IF Contains(sh, <<"z", "s", "h">>) THEN "zsh"
    ELSE IF Contains(sh, <<"b", "a", "s", "h">>) THEN "bash"
    ELSE IF Contains(sh, <<"f", "i", "s", "h">>) THEN "fish"
    ELSE IF Contains(ToLower(sh),
                     <<"p", "o", "w", "e", "r", "s", "h", "e", "l", "l">>)
    THEN "powershell"
    ELSE ""

Flags ==
    [bash : BOOLEAN, zsh : BOOLEAN, fish : BOOLEAN, powershell : BOOLEAN,
     force : BOOLEAN, writeRC : BOOLEAN, uninstallRC : BOOLEAN, all : BOOLEAN]

\* the shells whose variable is true once the selection at the head of RunE
\* is done
Select(fl, env) ==
    IF fl.bash \/ fl.zsh \/ fl.fish \/ fl.powershell
    THEN {s \in Shells : \/ s = "bash" /\ fl.bash
                         \/ s = "zsh" /\ fl.zsh
                         \/ s = "fish" /\ fl.fish
                         \/ s = "powershell" /\ fl.powershell}
    ELSE IF fl.all
    THEN {"bash", "zsh", "fish"}
    ELSE LET sh == detectShell(env) IN
         IF sh \in Shells THEN {sh} ELSE {"bash", "zsh"}

\* mutant: zsh handled before bash
ShellOrder_ZshFirst == <<"zsh", "bash", "fish", "powershell">>

\* the order of the four if-blocks of RunE
ShellOrder == <<"bash", "zsh", "fish", "powershell">>

\* mutant: the RC block added although --uninstall-rc is given
WantEnsure_IgnoreUninstall(writeRC, uninstallRC) == writeRC

\* if writeRC && !uninstallRC
WantEnsure(writeRC, uninstallRC) == writeRC /\ ~uninstallRC

Logged(st, fn, shell, err) ==
    Append(st.log, [fn |-> fn, shell |-> shell, err |-> err])

\* the outcomes of an operation that the writes still allowed to fail admit
Within(st, O) == {o \in O : st.faults + o.short <= MaxFaults}

\* one if-block of RunE: the completion write, then for bash and zsh the RC
\* block, then the status appended.  Every error is printed, none returned.
\* st = [rc, bak, comp, statuses, log, cur, faults]; the result is the set
\* of states the block can leave.
ProcessShell(st, shell, fl) ==
    LET AfterWrite ==
          { [st EXCEPT !.comp = w.comp,
                       !.log = Logged(st, "writeShellCompletion", shell, w.err),
                       !.cur = w.status,
                       !.faults = st.faults + w.short]
              : w \in Within(st, writeShellCompletion(st.comp, ShellStatus(shell),
                                                     shell, fl.force)) }
        Ensure(a) ==
          IF shell \in RCShells /\ WantEnsure(fl.writeRC, fl.uninstallRC)
          THEN { [a EXCEPT !.rc = e.rc, !.bak = e.bak,
                           !.log = Logged(a, "ensureShellRC", shell, e.err),
                           !.cur = e.status,
                           !.faults = a.faults + e.short]
                   : e \in Within(a, ensureShellRC([rc |-> a.rc, bak |-> a.bak],
                                                   a.cur, shell, fl.force)) }
          ELSE {a}
        Remove(a) ==
          IF shell \in RCShells /\ fl.uninstallRC
          THEN { [a EXCEPT !.rc = r.rc, !.bak = r.bak,
                           !.log = Logged(a, "removeRCBlock", shell, r.err),
                           !.cur = IF r.err THEN a.cur
                                   ELSE [a.cur EXCEPT !.rcRemoved = TRUE],
                           !.faults = a.faults + r.short]
                   : r \in Within(a, removeRCBlock([rc |-> a.rc, bak |-> a.bak],
                                                   RCPathOf(shell, a.rc))) }
          ELSE {a}
        Done(a) == [a EXCEPT !.statuses = Append(a.statuses, a.cur)]
    IN  { Done(c) : c \in UNION { Remove(b) :
                        b \in UNION { Ensure(a) : a \in AfterWrite } } }

RECURSIVE RunShells(_, _, _, _)
RunShells(S, i, sel, fl) ==
    IF i > Len(ShellOrder) THEN S
    ELSE RunShells(IF ShellOrder[i] \in sel
                   THEN UNION {ProcessShell(st, ShellOrder[i], fl) : st \in S}
                   ELSE S,
                   i + 1, sel, fl)

\* one invocation of "arc-init shell": the selection, the four if-blocks,
\* reportShellStatus (which only prints) and return nil
RunE ==
    /\ run.pc = "idle"
    /\ \E fl \in Flags, env \in ShellEnvs :
         LET sel == Select(fl, env)
             st0 == [rc |-> rc, bak |-> bak, comp |-> comp,
                     statuses |-> <<>>, log |-> <<>>, cur |-> ShellStatus(""),
                     faults |-> faults]
         IN  \E st \in RunShells({st0}, 1, sel, fl) :
               /\ rc' = st.rc
               /\ bak' = st.bak
               /\ comp' = st.comp
               /\ faults' = st.faults
               /\ run' = [pc |-> "done", flags |-> fl, selected |-> sel,
                          statuses |-> st.statuses, log |-> st.log,
                          ret |-> "nil", rc0 |-> rc]
    /\ UNCHANGED <<target, hist, clog>>

\* home directories the command is run in: the RC files (.bashrc,
\* .bash_profile, .zshrc) and the shells whose completion file is installed
UserText == <<"x">>

Homes ==
    { <<NoFile, NoFile, NoFile, {}>>,
      <<File(UserText), NoFile, File(UserText \o NL), {"zsh", "powershell"}>>,
      <<NoFile, File(UserText \o NL), NoFile, {"bash"}>>,
      <<File(UserText \o NL \o NL \o bashBlock), NoFile,
        File(NL \o zshBlock), Shells>> }

Init ==
    /\ \E h \in Homes :
         /\ rc = [p \in RCPaths |->
                    CASE p = ".bashrc" -> h[1]
                      [] p = ".bash_profile" -> h[2]
                      [] p = ".zshrc" -> h[3]]
         /\ comp = [s \in Shells |->
                      IF s \in h[4] THEN File(OldScript) ELSE NoFile]
    /\ bak = [p \in RCPaths |-> NoFile]
    /\ target \in DirectPaths
    /\ hist = <<>>
    /\ clog = <<>>
    /\ run = Idle
    /\ faults = 0

Next == RunE

Spec == Init /\ [][Next]_vars

----------------------------------------------------------------------------
(* Properties of the RC block manager.                                     *)

HasCall(op) == hist # <<>> /\ hist[1].op = op

\* "whitespace-normalized": trimmed, with a single trailing newline
Normalized(s) == TrimSpace(s) \o NL

\* t ends with an empty (or blank) line
EndsWithBlankLine(t) ==
    /\ Len(t) >= 2
    /\ t[Len(t)] = "\n"
    /\ \E i \in 1..(Len(t) - 1) :
         /\ t[i] = "\n"
         /\ \A j \in (i + 1)..(Len(t) - 1) : t[j] \in {" ", "\t"}

\* C1 (as claimed): starting from an RC file that is missing or holds
\* neither marker, no call of upsertRCBlock (any force, any well-formed
\* block) or removeRCBlock ever leaves more than one start marker or more
\* than one end marker in a file; and when two consecutive upserts of the
\* same block both succeed, the file holds exactly one marker pair and the
\* second upsert changed nothing.
CX_C1_AtMostOneMarkerPair ==
    [][ /\ \A p \in RCPaths :
             /\ Count(rc'[p].data, rcStart) <= 1
             /\ Count(rc'[p].data, rcEnd) <= 1
        /\ (/\ HasCall("upsert") /\ ~hist[1].err
            /\ hist'[1].op = "upsert" /\ ~hist'[1].err
            /\ hist'[1].block = hist[1].block)
           => /\ rc'[target] = rc[target]
              /\ Count(rc'[target].data, rcStart) = 1
              /\ Count(rc'[target].data, rcEnd) = 1 ]_vars

\* what holds of C1: an upsert that succeeds leaves both markers in the
\* file, and an upsert on a file that holds both markers changes nothing
UpsertOnBlockChangesNothing ==
    HasCall("upsert") =>
      LET c == hist[1] IN
        /\ ~c.err => HasBlock(rc[target].data)
        /\ (c.pre.exists /\ HasBlock(c.pre.data))
           => rc[target] = c.pre /\ bak[target] = c.preBak

\* C2 (as claimed): for every RC file whose content does not hold both
\* markers, a successful upsert followed by a successful removal leaves the
\* file equal to its whitespace-normalized pre-upsert content.
CX_C2_RoundTrip ==
    [][ (/\ HasCall("upsert") /\ ~hist[1].err
         /\ hist[1].pre.exists /\ ~HasBlock(hist[1].pre.data)
         /\ hist'[1].op = "remove" /\ ~hist'[1].err)
        => rc'[target].data = Normalized(hist[1].pre.data) ]_vars

\* the round trip on files that hold neither marker (a stray single marker
\* is what breaks C2)
RoundTripWithoutMarkers ==
    [][ (/\ HasCall("upsert") /\ ~hist[1].err
         /\ hist[1].pre.exists
         /\ ~Contains(hist[1].pre.data, rcStart)
         /\ ~Contains(hist[1].pre.data, rcEnd)
         /\ hist'[1].op = "remove" /\ ~hist'[1].err)
        => rc'[target].data = Normalized(hist[1].pre.data) ]_vars

\* C4: removeRCBlock on a readable file in which the start marker is
\* missing, or the end marker is missing, or the first end marker comes
\* before the first start marker, succeeds, writes nothing and leaves the
\* file exactly as it was.
C4_RemoveNothingToRemove ==
    HasCall("remove") =>
      LET c == hist[1]
          st == Index(c.pre.data, rcStart)
          en == Index(c.pre.data, rcEnd)
      IN  (c.pre.exists /\ c.res # "readerr"
              /\ (st = -1 \/ en = -1 \/ en < st))
          => /\ ~c.err
             /\ c.res = "nothing"
             /\ rc[target] = c.pre
             /\ bak[target] = c.preBak

\* C4 witness: a removal on a file holding both markers, the end marker first
W_C4_EndBeforeStart ==
    /\ HasCall("remove")
    /\ hist[1].res = "nothing"
    /\ Index(hist[1].pre.data, rcEnd) >= 0
    /\ Index(hist[1].pre.data, rcEnd) < Index(hist[1].pre.data, rcStart)

\* C5 (as claimed): when upsertRCBlock appends to an existing file with
\* unrelated content and no marker pair, the file is the original content,
\* then a blank line, then the block at the end of the file, whether or not
\* the original content ends with a newline.
CX_C5_BlankLineBeforeBlock ==
    HasCall("upsert") =>
      LET c == hist[1]
          post == rc[target].data
          n == Len(post) - Len(c.block)
      IN  (c.res = "appended" /\ c.pre.exists
              /\ TrimSpace(c.pre.data) # <<>> /\ ~HasBlock(c.pre.data))
          => /\ n >= Len(c.pre.data)
             /\ Prefix(post, Len(c.pre.data)) = c.pre.data
             /\ Suffix(post, n) = c.block
             /\ EndsWithBlankLine(Prefix(post, n))

\* C7 (as claimed): an upsert on a file that already holds both markers
\* leaves the file unchanged when force is false, and replaces the existing
\* block with the new block when force is true.
CX_C7_ForceUpdatesBlock ==
    HasCall("upsert") =>
      LET c == hist[1] IN
        (c.pre.exists /\ HasBlock(c.pre.data) /\ ~c.err)
        => /\ ~c.force => rc[target] = c.pre
           /\ c.force => Contains(rc[target].data, c.block)

\* C10: an upsert with force = false that mutates an existing RC file has
\* written the backup <path>.arc.bak first, holding the content as it was
\* before the mutation (also when the append then fails); when the markers
\* are present, or force is true, or the RC file does not exist, the backup
\* is neither written nor changed; a backup write that fails leaves the old
\* backup or a truncated copy and does not keep the block from being
\* appended.
C10_BackupBeforeMutation ==
    HasCall("upsert") =>
      LET c == hist[1] IN
        /\ (~c.force /\ c.pre.exists /\ ~c.bakErr
               /\ (rc[target] # c.pre \/ c.res \in {"openerr", "writeerr"}))
           => bak[target] = File(c.pre.data)
        /\ (~c.pre.exists \/ c.force \/ HasBlock(c.pre.data))
           => bak[target] = c.preBak /\ ~c.bakErr
        /\ c.bakErr
           => /\ \/ bak[target] = c.preBak
                 \/ \E n \in 0..(Len(c.pre.data) - 1) :
                      bak[target] = File(Prefix(c.pre.data, n))
              /\ c.res \in {"appended", "openerr", "writeerr"}
              /\ c.res = "appended" =>
                   /\ ~c.err
                   /\ rc[target] = File(c.pre.data \o NL \o c.block)

\* C10 witness: an upsert without force that appended to an existing file
\* and left its previous content in the backup, replacing an older backup
W_C10_BackupTaken ==
    /\ HasCall("upsert")
    /\ ~hist[1].force
    /\ hist[1].res = "appended"
    /\ hist[1].pre.exists
    /\ ~hist[1].bakErr
    /\ bak[target] = hist[1].pre
    /\ hist[1].preBak.exists
    /\ hist[1].preBak # bak[target]

----------------------------------------------------------------------------
(* Properties of the completion file writer.                               *)

\* C3 (as claimed): for each of the four shells, when the completion target
\* file exists and force is false, the write neither creates, truncates nor
\* modifies any file and the status is marked skipped, not written; hence a
\* second write without force after a first successful one leaves the
\* content as it was and reports skipped.
CX_C3_ExistingCompletionSkipped ==
    clog # <<>> =>
      LET c == clog[1] IN
        /\ (c.pre[c.shell].exists /\ ~c.force)
           => /\ comp = c.pre
              /\ ~c.err
              /\ c.status.skipped
              /\ ~c.status.written
        /\ (~c.force /\ c.prev.op = "write" /\ c.prev.shell = c.shell
               /\ ~c.prev.force /\ ~c.prev.err)
           => /\ comp = c.pre
              /\ c.status.skipped

\* C3 (amended): for each of the four shells, when os.Stat of the completion
\* target succeeds and force is false, the write returns no error, neither
\* creates, truncates nor modifies any file, and the status is marked
\* skipped, not written; hence a second write without force after a first
\* successful one, the file still stat-able, leaves the content as it was
\* and reports skipped.
C3_ExistingCompletionKept ==
    clog # <<>> =>
      LET c == clog[1] IN
        /\ (c.pre[c.shell].exists /\ ~c.force /\ c.res # "staterr")
           => /\ c.res = "skipped"
              /\ comp = c.pre
              /\ ~c.err
              /\ c.status.skipped
              /\ ~c.status.written
        /\ (~c.force /\ c.res # "staterr" /\ c.prev.op = "write"
               /\ c.prev.shell = c.shell /\ ~c.prev.force /\ ~c.prev.err)
           => /\ comp = c.pre
              /\ c.status.skipped

\* C3 witness: a second write without force, after a first one without force
\* that installed the script
W_C3_SecondWriteSkipped ==
    /\ clog # <<>>
    /\ ~clog[1].force
    /\ clog[1].status.skipped
    /\ clog[1].prev.op = "write"
    /\ clog[1].prev.shell = clog[1].shell
    /\ ~clog[1].prev.force
    /\ clog[1].prev.written
    /\ comp[clog[1].shell] = File(Script(clog[1].shell))

----------------------------------------------------------------------------
(* Properties of the shell command.                                        *)

Done == run.pc = "done"

\* the calls of fn that the invocation made, in order
CallsOf(fn) == SelectSeq(run.log, LAMBDA e : e.fn = fn)

Rank(shell) ==
    CASE shell = "bash" -> 1
      [] shell = "zsh" -> 2
      [] shell = "fish" -> 3
      [] shell = "powershell" -> 4

NoShellFlag ==
    ~(run.flags.bash \/ run.flags.zsh \/ run.flags.fish \/ run.flags.powershell)

\* C6 (as claimed): with --all and no individual shell flag, the command
\* attempts the completion installation for each of bash, zsh, fish and
\* powershell.
CX_C6_AllSelectsEveryShell ==
    (Done /\ run.flags.all /\ NoShellFlag)
    => \A s \in Shells :
         \E i \in 1..Len(run.log) :
           run.log[i].fn = "writeShellCompletion" /\ run.log[i].shell = s

\* C8: no per-shell failure aborts the invocation: whatever fails, every
\* selected shell is processed exactly once, in the order bash, zsh, fish,
\* powershell, a status entry is recorded for each of them, and RunE
\* returns nil.
C8_FailuresDoNotAbort ==
    Done =>
      LET W == CallsOf("writeShellCompletion") IN
        /\ run.ret = "nil"
        /\ Len(run.statuses) = Cardinality(run.selected)
        /\ {run.statuses[i].shell : i \in 1..Len(run.statuses)} = run.selected
        /\ \A i, j \in 1..Len(run.statuses) :
             i < j => Rank(run.statuses[i].shell) < Rank(run.statuses[j].shell)
        /\ Len(W) = Len(run.statuses)
        /\ \A i \in 1..Len(W) : W[i].shell = run.statuses[i].shell
        /\ \A s \in Shells :
             (/\ \/ s = "bash" /\ run.flags.bash
                 \/ s = "zsh" /\ run.flags.zsh
                 \/ s = "fish" /\ run.flags.fish
                 \/ s = "powershell" /\ run.flags.powershell)
             => s \in run.selected

\* C8 witness: all four shells processed although the bash completion write,
\* the bash RC upsert and the fish completion write failed
W_C8_AllProcessedDespiteFailures ==
    /\ Done
    /\ Len(run.statuses) = 4
    /\ \E i \in 1..Len(run.log) :
         /\ run.log[i].fn = "writeShellCompletion"
         /\ run.log[i].shell = "bash"
         /\ run.log[i].err
    /\ \E i \in 1..Len(run.log) :
         /\ run.log[i].fn = "ensureShellRC"
         /\ run.log[i].shell = "bash"
         /\ run.log[i].err
    /\ \E i \in 1..Len(run.log) :
         /\ run.log[i].fn = "writeShellCompletion"
         /\ run.log[i].shell = "fish"
         /\ run.log[i].err
    /\ run.statuses[4].written

\* C9: remove takes precedence over add: with both --write-rc and
\* --uninstall-rc, ensureShellRC is never called, no RC file gains a marker
\* or a backup, and for each selected shell with an RC file exactly the
\* removal is run.
C9_RemoveTakesPrecedence ==
    (Done /\ run.flags.writeRC /\ run.flags.uninstallRC)
    => /\ CallsOf("ensureShellRC") = <<>>
       /\ \A i \in 1..Len(run.statuses) :
            ~run.statuses[i].rcWritten /\ ~run.statuses[i].rcSkipped
       /\ \A s \in RCShells :
            Len(SelectSeq(CallsOf("removeRCBlock"), LAMBDA e : e.shell = s))
              = IF s \in run.selected THEN 1 ELSE 0
       /\ \A p \in RCPaths :
            /\ Count(rc[p].data, rcStart) <= Count(run.rc0[p].data, rcStart)
            /\ Count(rc[p].data, rcEnd) <= Count(run.rc0[p].data, rcEnd)
            /\ rc[p].exists = run.rc0[p].exists
            /\ ~bak[p].exists

\* C9 witness: both flags given, bash selected, and the block that was in
\* .bashrc removed
W_C9_BothFlagsRemoves ==
    /\ Done
    /\ run.flags.writeRC
    /\ run.flags.uninstallRC
    /\ "bash" \in run.selected
    /\ run.statuses[1].rcRemoved
    /\ HasBlock(run.rc0[".bashrc"].data)
    /\ ~Contains(rc[".bashrc"].data, rcStart)

====
